---- MODULE Spec2Model ----
(***************************************************************************)
(* Model of the gen-json family tree viewer (viewer script, part_002).     *)
(*                                                                         *)
(* State: the two globals familyData and selectedPersonId, the contents    *)
(* of the two DOM containers (familyTree, personDetails), the alert shown  *)
(* by the handler that ran last, and the asynchronous loads in flight;     *)
(* walk and query hold the stepwise runs of the tree recursion and of the  *)
(* documented event query.                                                 *)
(*                                                                         *)
(* JavaScript values are tagged records: field t is the kind of value.     *)
(*   document     [t |-> "object", individuals |-> v] or a non-object      *)
(*   individuals  [t |-> "object" or "array", order |-> keys in            *)
(*                 enumeration order, rec |-> key -> person] or a scalar   *)
(*   person       [t |-> "object", full_name, parents, children, spouses]  *)
(*                (and birth, when the record holds one)                   *)
(*                or [t |-> "null"] or a primitive                         *)
(*   list field   [t |-> "array", items |-> sequence of IDs] or undefined  *)
(* The rendered tree is the sequence of .tree-node elements in document    *)
(* (pre-)order; each node carries the data-ids of the .tree-node elements  *)
(* it is nested in (anc), outermost first.                                 *)
(***************************************************************************)
EXTENDS Integers, Sequences, FiniteSets, TLC

VARIABLES familyData, selectedPersonId, familyTree, personDetails, alertMsg,
          pending, walk, query

vars == <<familyData, selectedPersonId, familyTree, personDetails, alertMsg,
          pending, walk, query>>

(***************************************************************************)
(* Bounds of the model and constants of the program.                       *)
(***************************************************************************)
\* `depth > 10` in renderChildren
MaxDepth == 10

\* longest children list of the exhaustively enumerated two-person documents
MaxList == 2

\* longest chain of individuals I1 -> I2 -> ... in the chain documents
MaxChain == 12

\* loads that may be in flight at once
MaxPending == 2

\* call-stack frames the engine grants a recursion before it raises RangeError
StackLimit == 14

(***************************************************************************)
(* JavaScript values.                                                      *)
(***************************************************************************)
Undefined == [t |-> "undefined"]

Null == [t |-> "null"]

Arr(s) == [t |-> "array", items |-> s]

Str(s) == [t |-> "string", s |-> s]

\* ToBoolean: the falsy values are undefined, null, false, 0 and ""
Truthy(v) == v.t \notin {"undefined", "null", "false", "zero", "emptystring"}

\* the typeof operator
TypeOf(v) ==
    CASE v.t \in {"object", "array", "null"} -> "object"
      [] v.t \in {"number", "zero"} -> "number"
      [] v.t \in {"string", "emptystring"} -> "string"
      [] v.t \in {"true", "false"} -> "boolean"
      [] OTHER -> "undefined"

\* data.individuals: a property read; only an object document carries one
IndividualsOf(data) ==
    IF data.t = "object" THEN data.individuals ELSE Undefined

\* the keys of individuals, in the order for...in and Object.keys give them
KeysOf(ind) ==
    IF ind.t \in {"object", "array"} THEN ind.order ELSE << >>

\* names every object inherits from Object.prototype (some of them)
ObjectPrototypeKeys == {"constructor", "toString", "hasOwnProperty"}

\* familyData.individuals[id]: an own property, else an inherited one
Lookup(fd, id) ==
    LET ind == IndividualsOf(fd)
    IN IF ind.t \in {"object", "array"} /\ id \in DOMAIN ind.rec
       THEN ind.rec[id]
       ELSE IF ind.t \in {"object", "array"} /\ id \in ObjectPrototypeKeys
       THEN [t |-> "function"]
       ELSE Undefined

\* person.parents, person.children, person.spouses, person.full_name on a
\* non-null value (a primitive has none of them)
FieldOf(person, f) ==
    IF person.t = "object" THEN person[f] ELSE Undefined

\* x.length of a list field
LengthOf(v) == IF v.t = "array" THEN Len(v.items) ELSE 0

\* visitedIds.includes(id)
Includes(s, id) == \E i \in DOMAIN s : s[i] = id

\* person.full_name || 'Unknown'
DisplayName(person) ==
    LET n == FieldOf(person, "full_name")
    IN IF Truthy(n) THEN n.s ELSE "Unknown"

(***************************************************************************)
(* Data processing.                                                        *)
(***************************************************************************)
validateData(data) ==
    /\ Truthy(data)
    /\ Truthy(IndividualsOf(data))
    /\ TypeOf(IndividualsOf(data)) = "object"

\* reading person.parents of a null record raises TypeError
findRootThrows(fd) ==
    \E id \in DOMAIN IndividualsOf(fd).rec : Lookup(fd, id).t = "null"

\* the test without its length clause
IsRootAbsentOnly(person) == ~Truthy(FieldOf(person, "parents"))

\* !person.parents || person.parents.length === 0
IsRoot(person) ==
    \/ ~Truthy(FieldOf(person, "parents"))
    \/ LengthOf(FieldOf(person, "parents")) = 0

\* a findRootIndividuals that takes an individual listed as a child by some
\* individual to have that individual as a parent
findRootIndividualsInferring(fd) ==
    SelectSeq(KeysOf(IndividualsOf(fd)),
              LAMBDA id :
                 /\ IsRoot(Lookup(fd, id))
                 /\ ~\E a \in DOMAIN IndividualsOf(fd).rec :
                        LET list == FieldOf(Lookup(fd, a), "children")
                        IN list.t = "array" /\ Includes(list.items, id))

findRootIndividuals(fd) ==
    SelectSeq(KeysOf(IndividualsOf(fd)), LAMBDA id : IsRoot(Lookup(fd, id)))

(***************************************************************************)
(* Tree rendering.                                                         *)
(***************************************************************************)
\* depth is a parameter of the function that its body never reads
createPersonNode(id, person, depth, sel) ==
    [id |-> id, anc |-> << >>, selected |-> (sel = Str(id)),
     name |-> DisplayName(person), line |-> FALSE]

\* node.appendChild(container): the nodes of the container become
\* descendants of node, which gets a .tree-line element
AppendContainer(node, container) ==
    IF container.null THEN << node >>
    ELSE << [node EXCEPT !.line = TRUE] >> \o
         [i \in DOMAIN container.nodes |->
            [container.nodes[i] EXCEPT !.anc = << node.id >> \o @]]

NullContainer == [null |-> TRUE, nodes |-> << >>]

\* the guard without its depth test
TruncateNoDepth(parentId, depth, visitedIds) == Includes(visitedIds, parentId)

\* the guard without its path test
TruncateNoPath(parentId, depth, visitedIds) == depth > MaxDepth

\* no guard at all
TruncateNever(parentId, depth, visitedIds) == FALSE

\* the guard that opens renderChildren
Truncate(parentId, depth, visitedIds) ==
    depth > MaxDepth \/ Includes(visitedIds, parentId)

RECURSIVE renderChildren(_, _, _, _, _)
RECURSIVE forEachChild(_, _, _, _, _, _)

\* a forEach that gives up at the first child that does not resolve
forEachChildStopAtDangling(fd, sel, items, i, depth, visitedIds) ==
    IF i > Len(items) THEN << >>
    ELSE IF Truthy(Lookup(fd, items[i]))
    THEN AppendContainer(
             createPersonNode(items[i], Lookup(fd, items[i]), depth, sel),
             renderChildren(fd, sel, items[i], depth + 1, visitedIds))
         \o forEachChild(fd, sel, items, i + 1, depth, visitedIds)
    ELSE << >>

\* a renderChildren that also expands the individuals that declare parentId
\* as a parent
renderChildrenBackRef(fd, sel, parentId, depth, visitedIds) ==
    IF Truncate(parentId, depth, visitedIds)
    THEN NullContainer
    ELSE LET declared == FieldOf(Lookup(fd, parentId), "children")
             own == IF declared.t = "array" THEN declared.items ELSE << >>
             back == SelectSeq(KeysOf(IndividualsOf(fd)), LAMBDA id :
                        /\ FieldOf(Lookup(fd, id), "parents").t = "array"
                        /\ Includes(FieldOf(Lookup(fd, id), "parents").items, parentId)
                        /\ ~Includes(own, id))
         IN IF own \o back = << >>
            THEN NullContainer
            ELSE [null |-> FALSE,
                  nodes |-> forEachChild(fd, sel, own \o back, 1, depth,
                                         Append(visitedIds, parentId))]

\* a forEach that puts each child before the children already emitted
forEachChildReversed(fd, sel, items, i, depth, visitedIds) ==
    IF i > Len(items) THEN << >>
    ELSE IF Truthy(Lookup(fd, items[i]))
    THEN forEachChild(fd, sel, items, i + 1, depth, visitedIds)
         \o AppendContainer(
                createPersonNode(items[i], Lookup(fd, items[i]), depth, sel),
                renderChildren(fd, sel, items[i], depth + 1, visitedIds))
    ELSE forEachChild(fd, sel, items, i + 1, depth, visitedIds)

\* a forEach that emits a child ID only where it occurs first in the list
forEachChildOnce(fd, sel, items, i, depth, visitedIds) ==
    IF i > Len(items) THEN << >>
    ELSE IF Truthy(Lookup(fd, items[i])) /\ \A k \in 1..(i - 1) : items[k] # items[i]
    THEN AppendContainer(
             createPersonNode(items[i], Lookup(fd, items[i]), depth, sel),
             renderChildren(fd, sel, items[i], depth + 1, visitedIds))
         \o forEachChild(fd, sel, items, i + 1, depth, visitedIds)
    ELSE forEachChild(fd, sel, items, i + 1, depth, visitedIds)

\* the body of parent.children.forEach, from the i-th child on
forEachChild(fd, sel, items, i, depth, visitedIds) ==
    IF i > Len(items) THEN << >>
    ELSE LET childId == items[i]
             child == Lookup(fd, childId)
             rest == forEachChild(fd, sel, items, i + 1, depth, visitedIds)
         IN IF Truthy(child)
            THEN AppendContainer(
                     createPersonNode(childId, child, depth, sel),
                     renderChildren(fd, sel, childId, depth + 1, visitedIds))
                 \o rest
            ELSE rest

renderChildren(fd, sel, parentId, depth, visitedIds) ==
    IF Truncate(parentId, depth, visitedIds)
    THEN NullContainer
    ELSE LET visited == Append(visitedIds, parentId)
             parent == Lookup(fd, parentId)
             children == FieldOf(parent, "children")
         IN IF ~Truthy(parent) \/ ~Truthy(children) \/ LengthOf(children) = 0
            THEN NullContainer
            ELSE [null |-> FALSE,
                  nodes |-> forEachChild(fd, sel, children.items, 1, depth, visited)]

RECURSIVE RootList(_, _, _, _)
\* the roots branch: each root with its expanded children
RootList(fd, sel, roots, i) ==
    IF i > Len(roots) THEN << >>
    ELSE AppendContainer(
             createPersonNode(roots[i], Lookup(fd, roots[i]), 0, sel),
             renderChildren(fd, sel, roots[i], 1, << >>))
         \o RootList(fd, sel, roots, i + 1)

\* the no-roots branch expanding children like the roots branch
FlatListExpanded(fd, sel, keys, i) == RootList(fd, sel, keys, i)

RECURSIVE FlatList(_, _, _, _)
\* the no-roots branch: one node per individual, nothing beneath
FlatList(fd, sel, keys, i) ==
    IF i > Len(keys) THEN << >>
    ELSE << createPersonNode(keys[i], Lookup(fd, keys[i]), 0, sel) >>
         \o FlatList(fd, sel, keys, i + 1)

\* a renderFamilyTree that adds, after the roots, a top-level node for every
\* individual the roots branch did not reach
renderFamilyTreeWithUnreached(fd, sel) ==
    LET rootIndividuals == findRootIndividuals(fd)
        reached == RootList(fd, sel, rootIndividuals, 1)
        unreached == SelectSeq(KeysOf(IndividualsOf(fd)),
                        LAMBDA id : \A k \in DOMAIN reached : reached[k].id # id)
    IN IF Len(rootIndividuals) = 0
       THEN FlatList(fd, sel, KeysOf(IndividualsOf(fd)), 1)
       ELSE reached \o FlatList(fd, sel, unreached, 1)

\* the content of the familyTree container after renderFamilyTree() returned
\* normally (fd is validated, so the "No family data loaded" branch is dead)
renderFamilyTree(fd, sel) ==
    LET rootIndividuals == findRootIndividuals(fd)
    IN IF Len(rootIndividuals) = 0
       THEN FlatList(fd, sel, KeysOf(IndividualsOf(fd)), 1)
       ELSE RootList(fd, sel, rootIndividuals, 1)

(***************************************************************************)
(* Person details.                                                         *)
(***************************************************************************)
\* a section that links every listed ID, resolved or not
RelativesSectionAll(fd, list) ==
    IF Truthy(list) /\ LengthOf(list) > 0
    THEN [shown |-> TRUE, links |-> list.items]
    ELSE [shown |-> FALSE, links |-> << >>]

\* one "person-relatives" section: it is shown when the list is non-empty
\* and holds one link per ID that resolves
RelativesSection(fd, list) ==
    IF Truthy(list) /\ LengthOf(list) > 0
    THEN [shown |-> TRUE,
          links |-> SelectSeq(list.items, LAMBDA r : Truthy(Lookup(fd, r)))]
    ELSE [shown |-> FALSE, links |-> << >>]

\* person.birth: absent from a record that does not hold it
BirthOf(person) ==
    IF person.t = "object" /\ "birth" \in DOMAIN person
    THEN person.birth ELSE Undefined

\* the text of the Birth item of the details: the date (places are not
\* modelled), "" when the item is not shown
BirthInfo(person) ==
    LET birth == BirthOf(person)
    IN IF Truthy(birth) /\ Truthy(birth.date) THEN birth.date.s ELSE ""

SelectPrompt == [t |-> "prompt"]

PersonNotFound == [t |-> "notfound"]

\* a renderPersonDetails that leaves the shown individual out of its own
\* spouse links
renderPersonDetailsNoSelf(fd, id) ==
    IF ~Truthy(fd) \/ ~Truthy(IndividualsOf(fd)) \/ ~Truthy(Lookup(fd, id))
    THEN PersonNotFound
    ELSE LET person == Lookup(fd, id)
             spouses == RelativesSection(fd, FieldOf(person, "spouses"))
         IN [t |-> "details", id |-> id, name |-> DisplayName(person),
             birth |-> BirthInfo(person),
             parents |-> RelativesSection(fd, FieldOf(person, "parents")),
             spouses |-> [spouses EXCEPT
                            !.links = SelectSeq(@, LAMBDA r : r # id)],
             children |-> RelativesSection(fd, FieldOf(person, "children"))]

\* the content of the personDetails container after renderPersonDetails(id)
renderPersonDetails(fd, id) ==
    IF ~Truthy(fd) \/ ~Truthy(IndividualsOf(fd)) \/ ~Truthy(Lookup(fd, id))
    THEN PersonNotFound
    ELSE LET person == Lookup(fd, id)
         IN [t |-> "details", id |-> id, name |-> DisplayName(person),
             birth |-> BirthInfo(person),
             parents |-> RelativesSection(fd, FieldOf(person, "parents")),
             spouses |-> RelativesSection(fd, FieldOf(person, "spouses")),
             children |-> RelativesSection(fd, FieldOf(person, "children"))]

\* the least element of a set of positions, 0 for the empty set
\* (document.querySelector returns the first match in document order)
FirstOf(S) == IF S = {} THEN 0 ELSE CHOOSE i \in S : \A j \in S : i <= j

\* the tree after selectPerson(id) updated the 'selected' classes
MarkSelected(tree, id) ==
    LET prev == FirstOf({i \in DOMAIN tree : tree[i].selected})
        t1 == IF prev = 0 THEN tree ELSE [tree EXCEPT ![prev].selected = FALSE]
        new == FirstOf({i \in DOMAIN t1 : t1[i].id = id})
    IN IF new = 0 THEN t1 ELSE [t1 EXCEPT ![new].selected = TRUE]

\* the IDs a click can hand to selectPerson: the tree nodes and the relative
\* links of the details panel
LinkIds(d) ==
    IF d.t = "details"
    THEN {d.parents.links[i] : i \in DOMAIN d.parents.links}
         \cup {d.spouses.links[i] : i \in DOMAIN d.spouses.links}
         \cup {d.children.links[i] : i \in DOMAIN d.children.links}
    ELSE {}

Clickable ==
    {familyTree[i].id : i \in DOMAIN familyTree} \cup LinkIds(personDetails)

selectPerson(id) ==
    /\ familyTree' = MarkSelected(familyTree, id)
    /\ selectedPersonId' = Str(id)
    /\ personDetails' = renderPersonDetails(familyData, id)

(***************************************************************************)
(* Actions.                                                                *)
(***************************************************************************)
NoAlert == "none"

\* a processData whose rendering does not empty the container first: the
\* nodes of the new tree are added after those already shown
processDataKeepingNodes(data, prefix) ==
    IF ~validateData(data)
    THEN /\ alertMsg' = "Invalid gen-json format"
         /\ UNCHANGED <<familyData, selectedPersonId, familyTree, personDetails>>
    ELSE IF findRootThrows(data)
    THEN /\ familyData' = data
         /\ familyTree' = familyTree
         /\ alertMsg' = prefix \o "TypeError"
         /\ UNCHANGED <<selectedPersonId, personDetails>>
    ELSE /\ familyData' = data
         /\ familyTree' = familyTree \o renderFamilyTree(data, selectedPersonId)
         /\ personDetails' = SelectPrompt
         /\ selectedPersonId' = Null
         /\ alertMsg' = NoAlert

\* processData(data) as called from a handler whose catch block shows
\* prefix + error.message
processData(data, prefix) ==
    IF ~validateData(data)
    THEN /\ alertMsg' = "Invalid gen-json format"
         /\ UNCHANGED <<familyData, selectedPersonId, familyTree, personDetails>>
    ELSE IF findRootThrows(data)
    THEN \* familyData is assigned, the container emptied, then TypeError
         /\ familyData' = data
         /\ familyTree' = << >>
         /\ alertMsg' = prefix \o "TypeError"
         /\ UNCHANGED <<selectedPersonId, personDetails>>
    ELSE /\ familyData' = data
         /\ familyTree' = renderFamilyTree(data, selectedPersonId)
         /\ personDetails' = SelectPrompt
         /\ selectedPersonId' = Null
         /\ alertMsg' = NoAlert

RemoveAt(s, i) == [j \in 1..(Len(s) - 1) |-> IF j < i THEN s[j] ELSE s[j + 1]]

\* a file was chosen: the read is started and the handler suspends
HandleFileUpload(file) ==
    /\ Len(pending) < MaxPending
    /\ pending' = Append(pending, [src |-> "file", io |-> file.io, json |-> file.json])
    /\ alertMsg' = NoAlert
    /\ UNCHANGED <<familyData, selectedPersonId, familyTree, personDetails, walk,
                   query>>

\* the read of pending[i] ended: the handler resumes after its await
FileReadDone(i) ==
    /\ i \in DOMAIN pending
    /\ pending[i].src = "file"
    /\ pending' = RemoveAt(pending, i)
    /\ UNCHANGED <<walk, query>>
    /\ CASE pending[i].io = "ok" -> processData(pending[i].json, "Error loading file: ")
         [] pending[i].io = "syntax" ->
              /\ alertMsg' = "Error loading file: SyntaxError"
              /\ UNCHANGED <<familyData, selectedPersonId, familyTree, personDetails>>
         [] OTHER ->
              /\ alertMsg' = "Error loading file: undefined"
              /\ UNCHANGED <<familyData, selectedPersonId, familyTree, personDetails>>

\* the button was clicked: the fetch is started and the handler suspends
LoadExampleData(resp) ==
    /\ Len(pending) < MaxPending
    /\ pending' = Append(pending, [src |-> "example", io |-> resp.io, json |-> resp.json])
    /\ alertMsg' = NoAlert
    /\ UNCHANGED <<familyData, selectedPersonId, familyTree, personDetails, walk,
                   query>>

\* a loadExampleData without its `if (!response.ok)` test: the body of a
\* response with an error status is handed to processData
ExampleDoneNoOkTest(i) ==
    /\ i \in DOMAIN pending
    /\ pending[i].src = "example"
    /\ pending' = RemoveAt(pending, i)
    /\ UNCHANGED <<walk, query>>
    /\ CASE pending[i].io \in {"ok", "notok"} ->
              processData(pending[i].json, "Error loading example: ")
         [] pending[i].io = "syntax" ->
              /\ alertMsg' = "Error loading example: SyntaxError"
              /\ UNCHANGED <<familyData, selectedPersonId, familyTree, personDetails>>
         [] OTHER ->
              /\ alertMsg' = "Error loading example: NetworkError"
              /\ UNCHANGED <<familyData, selectedPersonId, familyTree, personDetails>>

\* the fetch of pending[i] ended: the handler resumes after its awaits
ExampleDone(i) ==
    /\ i \in DOMAIN pending
    /\ pending[i].src = "example"
    /\ pending' = RemoveAt(pending, i)
    /\ UNCHANGED <<walk, query>>
    /\ CASE pending[i].io = "ok" -> processData(pending[i].json, "Error loading example: ")
         [] pending[i].io = "notok" ->
              /\ alertMsg' = "Error loading example: Failed to load example data"
              /\ UNCHANGED <<familyData, selectedPersonId, familyTree, personDetails>>
         [] pending[i].io = "syntax" ->
              /\ alertMsg' = "Error loading example: SyntaxError"
              /\ UNCHANGED <<familyData, selectedPersonId, familyTree, personDetails>>
         [] OTHER ->
              /\ alertMsg' = "Error loading example: NetworkError"
              /\ UNCHANGED <<familyData, selectedPersonId, familyTree, personDetails>>

\* a selectPerson that stores a default for an absent children list in the
\* record it shows (person.children = person.children || [])
SelectPersonStoringDefault(id) ==
    /\ id \in Clickable
    /\ selectPerson(id)
    /\ alertMsg' = NoAlert
    /\ familyData' =
          IF /\ familyData.t = "object"
             /\ id \in DOMAIN familyData.individuals.rec
             /\ familyData.individuals.rec[id].t = "object"
          THEN [familyData EXCEPT !.individuals.rec[id].children =
                                      IF Truthy(@) THEN @ ELSE Arr(<< >>)]
          ELSE familyData
    /\ UNCHANGED <<pending, walk, query>>

\* a click on a tree node or on a relative link
SelectPerson(id) ==
    /\ id \in Clickable
    /\ selectPerson(id)
    /\ alertMsg' = NoAlert
    /\ UNCHANGED <<familyData, pending, walk, query>>

(***************************************************************************)
(* Documents the model loads.                                              *)
(***************************************************************************)
IdName(k) == "I" \o ToString(k)

\* an ID that no document defines
Dangling == "I99"

Person(name, parents, children, spouses) ==
    [t |-> "object", full_name |-> name, parents |-> parents,
     children |-> children, spouses |-> spouses]

Individuals(order, rec) == [t |-> "object", order |-> order, rec |-> rec]

Doc(ind) == [t |-> "object", individuals |-> ind]

SeqsUpTo(S, n) == UNION {[1..k -> S] : k \in 0..n}

\* every two-person document over I1, I2 and a dangling ID: any children
\* list up to MaxList long for I1 and one shorter for I2, any parents list
\* up to one long
PairRefs == {"I1", "I2", Dangling}

PairChildren(n) == {Undefined} \cup {Arr(s) : s \in SeqsUpTo(PairRefs, n)}

PairParents == {Undefined} \cup {Arr(s) : s \in SeqsUpTo(PairRefs, 1)}

PairDocs ==
    {Doc(Individuals(<<"I1", "I2">>,
         [id \in {"I1", "I2"} |->
            IF id = "I1" THEN Person(Str("Ann"), p1, c1, Undefined)
            ELSE Person(Str("Bob"), p2, c2, Undefined)])) :
       <<p1, c1, p2, c2>> \in
           PairParents \X PairChildren(MaxList) \X PairParents
           \X PairChildren(MaxList - 1)}

\* the same with I2 written before I1, children lists up to one long, and a
\* name or not for I2
SwappedDocs ==
    {Doc(Individuals(<<"I2", "I1">>,
         [id \in {"I1", "I2"} |->
            IF id = "I1" THEN Person(Str("Ann"), p1, c1, Undefined)
            ELSE Person(n2, p2, c2, Undefined)])) :
       <<p1, c1, p2, c2, n2>> \in
           PairParents \X {Undefined, Arr(<<"I2">>)} \X PairParents
           \X {Undefined, Arr(<<"I1">>)} \X {Undefined, Str("Bob")}}

\* spouse lists: resolved, self-referential, dangling
SpouseDocs ==
    {Doc(Individuals(<<"I1", "I2">>,
         [id \in {"I1", "I2"} |->
            IF id = "I1" THEN Person(Str("Ann"), Undefined, Undefined, s1)
            ELSE Person(Str("Bob"), p2, Undefined, s2)])) :
       <<s1, s2, p2>> \in
           {Undefined, Arr(<<"I2">>), Arr(<<"I1">>), Arr(<<"I2", Dangling>>)}
           \X {Undefined, Arr(<<"I2">>), Arr(<<Dangling>>)}
           \X {Undefined, Arr(<<"I1">>), Arr(<<Dangling>>)}}

\* references to IDs that are no individuals but names of Object.prototype
PrototypeDocs ==
    {Doc(Individuals(<<"I1", "I2">>,
         [id \in {"I1", "I2"} |->
            IF id = "I1" THEN Person(Str("Ann"), Undefined, c1, s1)
            ELSE Person(Str("Bob"), p2, Undefined, Undefined)])) :
       <<c1, s1, p2>> \in
           {Arr(<<"constructor">>), Arr(<<"toString", "I2">>)}
           \X {Undefined, Arr(<<"hasOwnProperty">>)}
           \X {Undefined, Arr(<<"constructor">>)}}

\* I1 -> I2 -> ... -> In through the children lists; the last individual
\* has no children (close = 0) or lists I<close>; parents are declared by
\* nobody ("none"), by all but I1 ("inner") or by all ("all")
ChainDoc(n, close, par) ==
    Doc(Individuals([k \in 1..n |-> IdName(k)],
        [id \in {IdName(k) : k \in 1..n} |->
           LET k == CHOOSE j \in 1..n : IdName(j) = id
           IN Person(Str("P"),
                     IF par = "all" \/ (par = "inner" /\ k > 1)
                     THEN Arr(<<IdName(IF k = 1 THEN n ELSE k - 1)>>)
                     ELSE Undefined,
                     IF k < n THEN Arr(<<IdName(k + 1)>>)
                     ELSE IF close = 0 THEN Undefined
                     ELSE Arr(<<IdName(close)>>),
                     Undefined)]))

ChainDocs ==
    {ChainDoc(n, close, par) :
       <<n, close, par>> \in (1..MaxChain) \X {0, 1} \X {"none", "inner", "all"}}

\* I1 declares parents I3 and I4 and child I5; I5 declares no parent; I3
\* and I4 list I1 as a child or not
ScenarioDoc(c3, c4) ==
    Doc(Individuals(<<"I1", "I3", "I4", "I5">>,
        [id \in {"I1", "I3", "I4", "I5"} |->
           CASE id = "I1" -> Person(Str("John"), Arr(<<"I3", "I4">>),
                                    Arr(<<"I5">>), Undefined)
             [] id = "I3" -> Person(Str("Dad"), Undefined, c3, Undefined)
             [] id = "I4" -> Person(Str("Mum"), Undefined, c4, Undefined)
             [] OTHER -> Person(Str("Kid"), Undefined, Undefined, Undefined)]))

ScenarioDocs ==
    {ScenarioDoc(c3, c4) :
       <<c3, c4>> \in {Undefined, Arr(<<"I1">>)} \X {Undefined, Arr(<<"I1">>)}}

\* documents that parse but are not gen-json: no object, no individuals,
\* individuals of another type (an array holds its elements under "0", "1")
Scalars ==
    {Null, [t |-> "number"], [t |-> "zero"], Str("x"), [t |-> "emptystring"],
     [t |-> "true"], [t |-> "false"]}

ArrayIndividuals(n) ==
    [t |-> "array", order |-> [k \in 1..n |-> ToString(k - 1)],
     rec |-> [id \in {ToString(k - 1) : k \in 1..n} |->
                Person(Str("Elt"), Undefined, Undefined, Undefined)]]

StructuralDocs ==
    Scalars
    \cup {Arr(<< >>), Doc(Undefined)}
    \cup {Doc(v) : v \in Scalars}
    \cup {Doc(ArrayIndividuals(n)) : n \in 0..2}
    \cup {Doc(Individuals(<< >>, << >>))}

\* documents with one record that is no individual: null, a primitive, or
\* an object without a name; the other record is well-formed
BadRecords ==
    {Null, Str("x"), Person(Undefined, Undefined, Arr(<<"I2">>), Undefined)}

MalformedDocs ==
    {Doc(Individuals(order,
         [id \in {"I1", "I2"} |->
            IF id = "I1" THEN bad
            ELSE Person(Str("Bob"), p2, Undefined, Undefined)])) :
       <<order, bad, p2>> \in
           {<<"I1", "I2">>, <<"I2", "I1">>} \X BadRecords
           \X {Undefined, Arr(<<"I1">>)}}

\* schema-valid documents: individuals is an object of objects whose list
\* fields are arrays of strings
SchemaValidDocs ==
    PairDocs \cup SwappedDocs \cup SpouseDocs \cup PrototypeDocs
    \cup ChainDocs \cup ScenarioDocs

TreeDocs == SchemaValidDocs \cup StructuralDocs \cup MalformedDocs

(***************************************************************************)
(* The recursion of renderFamilyTree / renderChildren, one call or loop    *)
(* iteration per step.  walk.stack holds the activation records, innermost *)
(* last; walk.out lists the nodes created so far with the renderChildren   *)
(* activations they were created in.                                       *)
(***************************************************************************)
Idle == [pc |-> "idle", stack |-> << >>, out |-> << >>]

\* an activation record whose visited sequence is shared by the whole
\* traversal: renderChildren receives every ID emitted so far
FrameSharedVisited(fn, parentId, depth, visitedIds, items) ==
    [fn |-> fn, parentId |-> parentId, depth |-> depth,
     visitedIds |-> IF fn = "renderChildren"
                    THEN [k \in DOMAIN walk.out |-> walk.out[k].id]
                    ELSE visitedIds,
     items |-> items, i |-> 1,
     st |-> IF fn = "renderChildren" THEN "enter" ELSE "loop"]

Frame(fn, parentId, depth, visitedIds, items) ==
    [fn |-> fn, parentId |-> parentId, depth |-> depth,
     visitedIds |-> visitedIds, items |-> items, i |-> 1,
     st |-> IF fn = "renderChildren" THEN "enter" ELSE "loop"]

\* renderFamilyTree() is entered: the roots branch loops over the roots,
\* the no-roots branch over all keys
StartWalk(fd) ==
    LET roots == findRootIndividuals(fd)
    IN [pc |-> "run",
        stack |-> << Frame(IF Len(roots) = 0 THEN "flat" ELSE "roots", "", 0, << >>,
                           IF Len(roots) = 0 THEN KeysOf(IndividualsOf(fd))
                           ELSE roots) >>,
        out |-> << >>]

Top == walk.stack[Len(walk.stack)]

Pop(stack) == SubSeq(stack, 1, Len(stack) - 1)

\* the data-ids of the nodes a node created now is nested in
Enclosing(stack) ==
    LET calls == SelectSeq(stack, LAMBDA f : f.fn = "renderChildren")
    IN [k \in DOMAIN calls |-> calls[k].parentId]

Finish(stack, out) ==
    [pc |-> IF stack = << >> THEN "done" ELSE "run", stack |-> stack, out |-> out]

\* a call of renderChildren runs up to its forEach, or returns null
WalkEnter ==
    /\ walk.pc = "run"
    /\ Top.st = "enter"
    /\ LET f == Top
           parent == Lookup(familyData, f.parentId)
           children == FieldOf(parent, "children")
       IN IF Truncate(f.parentId, f.depth, f.visitedIds)
             \/ ~Truthy(parent) \/ ~Truthy(children) \/ LengthOf(children) = 0
          THEN walk' = Finish(Pop(walk.stack), walk.out)
          ELSE walk' = [walk EXCEPT
                   !.stack[Len(walk.stack)] =
                       [f EXCEPT !.st = "loop",
                                 !.visitedIds = Append(f.visitedIds, f.parentId),
                                 !.items = children.items]]
    /\ UNCHANGED <<familyData, selectedPersonId, familyTree, personDetails,
                   alertMsg, pending, query>>

\* one iteration of a forEach: the node is created and, except in the
\* no-roots branch, renderChildren is called for it; past the last element
\* the function returns
WalkEach ==
    /\ walk.pc = "run"
    /\ Top.st = "loop"
    /\ LET f == Top
           n == Len(walk.stack)
       IN IF f.i > Len(f.items)
          THEN walk' = Finish(Pop(walk.stack), walk.out)
          ELSE LET id == f.items[f.i]
                   advanced == [walk.stack EXCEPT ![n].i = f.i + 1]
                   emitted == Append(walk.out,
                                     [id |-> id, anc |-> Enclosing(walk.stack)])
               IN IF f.fn = "renderChildren" /\ ~Truthy(Lookup(familyData, id))
                  THEN walk' = [walk EXCEPT !.stack = advanced]
                  ELSE IF f.fn = "flat"
                  THEN walk' = [walk EXCEPT !.stack = advanced, !.out = emitted]
                  ELSE IF n >= StackLimit
                  THEN walk' = [pc |-> "overflow", stack |-> walk.stack,
                                out |-> emitted]
                  ELSE walk' = [pc |-> "run",
                                stack |-> Append(advanced,
                                    Frame("renderChildren", id, f.depth + 1,
                                          f.visitedIds, << >>)),
                                out |-> emitted]
    /\ UNCHANGED <<familyData, selectedPersonId, familyTree, personDetails,
                   alertMsg, pending, query>>

(***************************************************************************)
(* The documented event query (README "Example AI query", CHANGES-v2.0     *)
(* "v2.0 Query Solution"): events.filter over the array of event records.  *)
(* An event is [type, individual_id, date]; individual_id is absent from   *)
(* events that have participants instead; date is [value, date_type,       *)
(* circa] with circa absent or true.                                       *)
(***************************************************************************)
\* longest array of events a query is run on
MaxEvents == 2

EventTypes == {"immigration", "birth"}

Subjects == {Str("I1"), Str("I2"), Undefined}

Dates ==
    {[value |-> "1920", date_type |-> "approximate", circa |-> [t |-> "true"]],
     [value |-> "1900-01-01", date_type |-> "exact", circa |-> Undefined]}

Events ==
    {[type |-> type, individual_id |-> ind, date |-> date] :
       <<type, ind, date>> \in EventTypes \X Subjects \X Dates}

EventArrays == SeqsUpTo(Events, MaxEvents)

\* a filter that tests the type alone
eventsByType(events, i, t) == SelectSeq(events, LAMBDA e : e.type = t)

\* events.filter(e => e.type === t && e.individual_id === i)
eventsByIndividualAndType(events, i, t) ==
    SelectSeq(events, LAMBDA e : e.type = t /\ e.individual_id = Str(i))

NoQuery == [pc |-> "none", events |-> << >>, i |-> "", t |-> "", result |-> << >>]

\* the query is evaluated
RunQuery ==
    /\ query.pc = "ask"
    /\ query' = [query EXCEPT
                   !.pc = "done",
                   !.result = eventsByIndividualAndType(query.events, query.i, query.t)]
    /\ UNCHANGED <<familyData, selectedPersonId, familyTree, personDetails,
                   alertMsg, pending, walk>>

(***************************************************************************)
(* Specifications.                                                         *)
(***************************************************************************)
\* the files a user picks and the responses the example URL gives in Spec
SessionDocs ==
    {ScenarioDoc(Arr(<<"I1">>), Undefined),
     ChainDoc(2, 1, "all"),
     Doc(Individuals(<<"I1", "I2">>,
         [id \in {"I1", "I2"} |->
            IF id = "I1" THEN Null
            ELSE Person(Str("Bob"), Undefined, Arr(<<Dangling>>), Undefined)])),
     Doc(ArrayIndividuals(1)),
     Doc(Str("x")),
     Null}

Files ==
    {[io |-> "ok", json |-> d] : d \in SessionDocs}
    \cup {[io |-> "syntax", json |-> Null], [io |-> "error", json |-> Null]}

Responses == Files \cup {[io |-> "notok", json |-> Null]}

Init ==
    /\ familyData = Null
    /\ selectedPersonId = Null
    /\ familyTree = << >>
    /\ personDetails = SelectPrompt
    /\ alertMsg = NoAlert
    /\ pending = << >>
    /\ walk = Idle
    /\ query = NoQuery

Next ==
    \/ \E file \in Files : HandleFileUpload(file)
    \/ \E resp \in Responses : LoadExampleData(resp)
    \/ \E i \in 1..MaxPending : FileReadDone(i)
    \/ \E i \in 1..MaxPending : ExampleDone(i)
    \/ \E id \in Clickable : SelectPerson(id)

Spec == Init /\ [][Next]_vars

\* one document of TreeDocs is being read when the page is fresh
InitTree ==
    /\ familyData = Null
    /\ selectedPersonId = Null
    /\ familyTree = << >>
    /\ personDetails = SelectPrompt
    /\ alertMsg = NoAlert
    /\ \E d \in TreeDocs : pending = << [src |-> "file", io |-> "ok", json |-> d] >>
    /\ walk = Idle
    /\ query = NoQuery

NextTree ==
    \/ FileReadDone(1)
    \/ \E id \in Clickable : SelectPerson(id)

SpecTree == InitTree /\ [][NextTree]_vars

\* the property key individuals[item] converts an object to: String(object)
PropertyKey(record) == "[object Object]"

\* a list of typed relationship records: the records are kept, and items
\* holds what individuals[item] looks up for each of them
RecordArr(records) ==
    [t |-> "array",
     items |-> [k \in DOMAIN records |-> PropertyKey(records[k])],
     records |-> records]

\* a relationship list with {individual_id, relationship_type} records in
\* place of ID strings
TypedList(list) ==
    IF list.t = "array"
    THEN RecordArr([k \in DOMAIN list.items |->
                      [individual_id |-> list.items[k],
                       relationship_type |-> "biological"]])
    ELSE list

\* the ID of the birth event of an individual
EventId(id) == "E" \o id

\* the structured form of an individual: the name is an object that holds
\* full_name, the individual itself has no full_name and no inline birth
\* (it refers to a birth event instead), relationships are typed
StructuredPerson(id, person) ==
    [t |-> "object", full_name |-> Undefined,
     name |-> [t |-> "object", full_name |-> person.full_name],
     events |-> IF Truthy(BirthOf(person)) THEN Arr(<<EventId(id)>>)
                ELSE Arr(<< >>),
     parents |-> TypedList(person.parents),
     children |-> TypedList(person.children),
     spouses |-> TypedList(person.spouses)]

\* the structured document equivalent to a legacy document
StructuredDoc(d) ==
    [t |-> "object",
     individuals |->
        [d.individuals EXCEPT !.rec =
            [id \in DOMAIN d.individuals.rec |->
               StructuredPerson(id, d.individuals.rec[id])]],
     events |->
        LET born == {k \in DOMAIN d.individuals.rec :
                       Truthy(BirthOf(d.individuals.rec[k]))}
        IN [e \in {EventId(k) : k \in born} |->
              LET id == CHOOSE k \in born : EventId(k) = e
              IN [type |-> "birth", individual_id |-> Str(id),
                  date |-> [value |-> BirthOf(d.individuals.rec[id]).date,
                            date_type |-> "exact", circa |-> Undefined]]]]

\* legacy documents and the structured documents equivalent to them
\* a legacy individual with an inline birth
DatedPerson(name, birth) ==
    [t |-> "object", full_name |-> name, parents |-> Undefined,
     children |-> Undefined, spouses |-> Undefined, birth |-> birth]

\* one-person legacy documents with a name or not, a birth date or not
DatedDocs ==
    {Doc(Individuals(<<"I1">>, [id \in {"I1"} |-> DatedPerson(name, birth)])) :
       <<name, birth>> \in
           {Str("John Doe"), Undefined}
           \X {[t |-> "object", date |-> Str("1900-01-01")],
               [t |-> "object", date |-> Undefined], Undefined}}

LegacyDocs == SwappedDocs \cup ScenarioDocs \cup DatedDocs

ShapeDocs == LegacyDocs \cup {StructuredDoc(d) : d \in LegacyDocs}

\* one document of ShapeDocs is being read when the page is fresh
InitShapes ==
    /\ familyData = Null
    /\ selectedPersonId = Null
    /\ familyTree = << >>
    /\ personDetails = SelectPrompt
    /\ alertMsg = NoAlert
    /\ \E d \in ShapeDocs : pending = << [src |-> "file", io |-> "ok", json |-> d] >>
    /\ walk = Idle
    /\ query = NoQuery

SpecShapes == InitShapes /\ [][NextTree]_vars

\* the documents whose traversal is followed step by step: both individuals
\* of a pair are roots, with any children lists; chains; the scenario
WalkDocs ==
    {d \in PairDocs : \A id \in {"I1", "I2"} :
                         Lookup(d, id).parents = Undefined}
    \cup SwappedDocs \cup ChainDocs \cup ScenarioDocs

\* processData has validated and stored the document and calls
\* renderFamilyTree
InitWalk ==
    /\ familyData \in WalkDocs
    /\ selectedPersonId = Null
    /\ familyTree = << >>
    /\ personDetails = SelectPrompt
    /\ alertMsg = NoAlert
    /\ pending = << >>
    /\ walk = StartWalk(familyData)
    /\ query = NoQuery

NextWalk == WalkEnter \/ WalkEach

\* a running script is never suspended for good: every enabled step is taken
SpecWalk == InitWalk /\ [][NextWalk]_vars /\ WF_vars(NextWalk)

\* a query over an array of events is about to be evaluated
InitQuery ==
    /\ familyData = Null
    /\ selectedPersonId = Null
    /\ familyTree = << >>
    /\ personDetails = SelectPrompt
    /\ alertMsg = NoAlert
    /\ pending = << >>
    /\ walk = Idle
    /\ \E events \in EventArrays : \E i \in {"I1", "I2"} : \E t \in EventTypes :
          query = [pc |-> "ask", events |-> events, i |-> i, t |-> t,
                   result |-> << >>]

SpecQuery == InitQuery /\ [][RunQuery]_vars

\* two loads are in flight on a fresh page: the first was started with a
\* document of EarlierDocs, the second, after it, with one of LaterDocs
EarlierDocs == ScenarioDocs

LaterDocs == {ChainDoc(n, 0, "none") : n \in 1..3}

InitRace ==
    /\ familyData = Null
    /\ selectedPersonId = Null
    /\ familyTree = << >>
    /\ personDetails = SelectPrompt
    /\ alertMsg = NoAlert
    /\ \E first \in EarlierDocs, last \in LaterDocs :
          \E s1, s2 \in {"file", "example"} :
             pending = << [src |-> s1, io |-> "ok", json |-> first],
                          [src |-> s2, io |-> "ok", json |-> last] >>
    /\ walk = Idle
    /\ query = NoQuery

\* the reads complete in any order; no further load is started
NextRace ==
    \/ \E i \in 1..2 : FileReadDone(i)
    \/ \E i \in 1..2 : ExampleDone(i)
    \/ \E id \in Clickable : SelectPerson(id)

SpecRace == InitRace /\ [][NextRace]_vars

(***************************************************************************)
(* Reading the rendered tree.                                              *)
(***************************************************************************)
Depth(node) == Len(node.anc)

\* the IDs from the top-level node down to the node itself
PathOf(node) == Append(node.anc, node.id)

Distinct(s) == \A i, j \in DOMAIN s : i # j => s[i] # s[j]

IdsOf(nodes) == [k \in DOMAIN nodes |-> nodes[k].id]

TopIds(tree) == IdsOf(SelectSeq(tree, LAMBDA n : n.anc = << >>))

\* the position of the last node nested in node i (i itself when none is)
SubtreeEnd(tree, i) ==
    LET after == {k \in (i + 1)..Len(tree) : Depth(tree[k]) <= Depth(tree[i])}
    IN IF after = {} THEN Len(tree) ELSE FirstOf(after) - 1

\* the positions of the nodes nested in node i
Beneath(tree, i) == (i + 1)..SubtreeEnd(tree, i)

\* the IDs of the nodes directly beneath node i, in order
DirectChildIds(tree, i) ==
    IdsOf(SelectSeq(SubSeq(tree, i + 1, SubtreeEnd(tree, i)),
                    LAMBDA n : Depth(n) = Depth(tree[i]) + 1))

\* the entries of a list field for which individuals[id] yields a value
Resolvable(fd, list) ==
    IF list.t = "array"
    THEN SelectSeq(list.items, LAMBDA r : Lookup(fd, r).t \notin {"undefined", "null"})
    ELSE << >>

\* an individual with zero declared parents
NoDeclaredParents(person) ==
    \/ person.t # "object"
    \/ person.parents = Undefined
    \/ person.parents = Arr(<< >>)

RootCandidates(fd) ==
    SelectSeq(KeysOf(IndividualsOf(fd)),
              LAMBDA id : NoDeclaredParents(Lookup(fd, id)))

\* a document the schema accepts: an object whose individuals are objects
\* with string names and arrays of strings
IsSchemaValid(d) ==
    /\ d.t = "object"
    /\ d.individuals.t = "object"
    /\ \A id \in DOMAIN d.individuals.rec :
          LET person == d.individuals.rec[id]
          IN /\ person.t = "object"
             /\ person.full_name.t \in {"undefined", "string"}
             /\ \A f \in {"parents", "spouses", "children"} :
                   person[f].t \in {"undefined", "array"}

\* a document is loaded and its tree was rendered to the end
Rendered == familyData # Null /\ ~findRootThrows(familyData)

(***************************************************************************)
(* Claims.                                                                 *)
(***************************************************************************)
\* C1: every node of the rendered tree lies at depth at most 10 below its
\* top-level root (depth 0), for cyclic and acyclic documents alike.
C1_DepthCeiling ==
    \A i \in DOMAIN familyTree : Depth(familyTree[i]) <= MaxDepth

\* a node at depth 10 that lists a child which exists and is not on its
\* path, and under which nothing was emitted
C1_Witness ==
    \E i \in DOMAIN familyTree :
       LET n == familyTree[i]
           kids == Resolvable(familyData, FieldOf(Lookup(familyData, n.id), "children"))
       IN /\ Depth(n) = MaxDepth
          /\ ~n.line
          /\ \E k \in DOMAIN kids : ~Includes(PathOf(n), kids[k])

\* C2 as stated: on every root-to-leaf path each ID appears at most once.
C2_OncePerPath ==
    \A i \in DOMAIN familyTree : Distinct(PathOf(familyTree[i]))

\* C2 amended: the nodes that are expanded on a path carry distinct IDs; an
\* ID that is already on the path is emitted once more, as a node with
\* nothing beneath it.
C2_OncePerPathExpanded ==
    \A i \in DOMAIN familyTree :
       LET n == familyTree[i]
       IN /\ Distinct(n.anc)
          /\ Includes(n.anc, n.id) => ~n.line /\ Beneath(familyTree, i) = {}

\* a node whose ID is the ID of one of its ancestors
C2_Witness ==
    \E i \in DOMAIN familyTree :
       /\ Includes(familyTree[i].anc, familyTree[i].id)
       /\ Depth(familyTree[i]) >= 2

\* C4: the root candidates are the individuals with no parents list or an
\* empty one; when there are any, the top-level nodes are exactly these
\* individuals, each once, in document order.
C4_RootSelection ==
    Rendered =>
       /\ findRootIndividuals(familyData) = RootCandidates(familyData)
       /\ RootCandidates(familyData) # << >> =>
             TopIds(familyTree) = RootCandidates(familyData)

\* two roots written in the order I2, I1, one of them with an empty parents
\* list, next to non-roots
C4_Witness ==
    /\ Rendered
    /\ Len(RootCandidates(familyData)) >= 1
    /\ Len(RootCandidates(familyData)) < Len(KeysOf(IndividualsOf(familyData)))
    /\ \E id \in DOMAIN IndividualsOf(familyData).rec :
          FieldOf(Lookup(familyData, id), "parents") = Arr(<< >>)
    /\ KeysOf(IndividualsOf(familyData)) = <<"I2", "I1">>
    /\ Len(familyTree) >= 2

\* C5: when no individual is a root candidate, every individual is emitted
\* exactly once, at the top level, with nothing beneath it, and no error is
\* shown.
C5_Fallback ==
    (Rendered /\ RootCandidates(familyData) = << >>) =>
       /\ IdsOf(familyTree) = KeysOf(IndividualsOf(familyData))
       /\ \A i \in DOMAIN familyTree :
             familyTree[i].anc = << >> /\ ~familyTree[i].line
       /\ alertMsg = NoAlert

\* a cycle of three individuals who all declare a parent and a child
C5_Witness ==
    /\ Rendered
    /\ RootCandidates(familyData) = << >>
    /\ Len(familyTree) >= 3
    /\ \A i \in DOMAIN familyTree :
          Resolvable(familyData,
                     FieldOf(Lookup(familyData, familyTree[i].id), "children")) # << >>

\* C3: the traversal of every document ends, whatever self-references and
\* cycles its children lists hold: renderFamilyTree returns, and the
\* recursion never exhausts the call stack.
C3_Terminates ==
    /\ <>(walk.pc = "done")
    /\ [](walk.pc # "overflow")

\* a traversal that has returned after it met an individual on its own
\* ancestor path three or more levels down
C3_Witness ==
    /\ walk.pc = "done"
    /\ \E k \in DOMAIN walk.out :
          /\ Includes(walk.out[k].anc, walk.out[k].id)
          /\ Len(walk.out[k].anc) >= 3

\* the step-by-step traversal creates the nodes renderFamilyTree returns
WalkMatchesRender ==
    walk.pc = "done" =>
       walk.out = [k \in DOMAIN renderFamilyTree(familyData, Null) |->
                     [id |-> renderFamilyTree(familyData, Null)[k].id,
                      anc |-> renderFamilyTree(familyData, Null)[k].anc]]

\* the list fields of an individual, as sets of IDs
ListedIn(fd, id, f) ==
    LET list == FieldOf(Lookup(fd, id), f)
    IN IF list.t = "array" THEN {list.items[k] : k \in DOMAIN list.items} ELSE {}

KeySet(fd) == {KeysOf(IndividualsOf(fd))[k] : k \in DOMAIN KeysOf(IndividualsOf(fd))}

LinkSet(section) == {section.links[k] : k \in DOMAIN section.links}

C8_BrokenRefsNonFatal ==
    [][\A p \in 1..MaxPending :
          (p \in DOMAIN pending /\ pending[p].io = "ok"
           /\ IsSchemaValid(pending[p].json) /\ FileReadDone(p))
          => LET d == pending[p].json
             IN /\ alertMsg' = NoAlert
                /\ familyData' = d
                /\ TopIds(familyTree') =
                      IF RootCandidates(d) # << >> THEN RootCandidates(d)
                      ELSE KeysOf(IndividualsOf(d))
                /\ \A i \in DOMAIN familyTree' :
                      LET n == familyTree'[i]
                          kids == Resolvable(d, FieldOf(Lookup(d, n.id), "children"))
                      IN /\ n.line => DirectChildIds(familyTree', i) = kids
                         /\ (~n.line /\ kids # << >>) =>
                               \/ RootCandidates(d) = << >>
                               \/ Depth(n) = MaxDepth
                               \/ Includes(n.anc, n.id)]_vars

\* a schema-valid document is rendered in which an expanded node lists a
\* dangling ID before an ID that resolves, and a node is its own ancestor
C8_Witness ==
    /\ Rendered
    /\ IsSchemaValid(familyData)
    /\ alertMsg = NoAlert
    /\ \E i \in DOMAIN familyTree :
          LET items == FieldOf(Lookup(familyData, familyTree[i].id), "children")
          IN /\ familyTree[i].line
             /\ items.t = "array" /\ Len(items.items) >= 2
             /\ items.items[1] = Dangling
             /\ Lookup(familyData, items.items[2]).t = "object"
    /\ \E i \in DOMAIN familyTree : Includes(familyTree[i].anc, familyTree[i].id)

\* C9 as stated: a load is rejected, with an error and with the document,
\* the tree and the selection left as they were, exactly when the document
\* is no object or its individuals are no ID-keyed mapping; every other
\* document is loaded.
C9_OnlyStructuralFailuresAbort ==
    [][\A p \in 1..MaxPending :
          (p \in DOMAIN pending /\ pending[p].io = "ok"
           /\ (FileReadDone(p) \/ ExampleDone(p)))
          => LET d == pending[p].json
             IN IF d.t # "object" \/ d.individuals.t # "object"
                THEN /\ alertMsg' # NoAlert
                     /\ UNCHANGED <<familyData, familyTree, selectedPersonId>>
                ELSE /\ alertMsg' = NoAlert
                     /\ familyData' = d
                     /\ selectedPersonId' = Null]_vars

\* an individual record without identity: no object, or no name
Malformed(person) == person.t # "object" \/ person.full_name = Undefined

\* C10 as stated: when a document with ID-keyed individuals holds a
\* malformed individual, an error is reported for it, and the document is
\* loaded with every other individual rendered as usual (here: every
\* well-formed individual without declared parents is a top-level node).
C10_PerEntityIsolation ==
    [][\A p \in 1..MaxPending :
          (p \in DOMAIN pending /\ pending[p].io = "ok"
           /\ (FileReadDone(p) \/ ExampleDone(p))
           /\ pending[p].json.t = "object"
           /\ pending[p].json.individuals.t = "object"
           /\ \E id \in KeySet(pending[p].json) :
                 Malformed(Lookup(pending[p].json, id)))
          => LET d == pending[p].json
             IN /\ alertMsg' # NoAlert
                /\ familyData' = d
                /\ \A id \in KeySet(d) :
                      (~Malformed(Lookup(d, id)) /\ NoDeclaredParents(Lookup(d, id)))
                      => \E i \in DOMAIN familyTree' :
                            familyTree'[i].id = id /\ familyTree'[i].anc = << >>]_vars

(***************************************************************************)
(* Loads within a session (Spec).                                          *)
(***************************************************************************)
\* the handler of pending[p] resumed and ran to its end in this step
LoadEnded(p) == p \in DOMAIN pending /\ pending' = RemoveAt(pending, p)

\* pending[p] was read and parsed, so its handler calls processData
Parsed(p) == pending[p].io = "ok"

\* C11: a load has no observable intermediate state: when a load attempt
\* has ended, either the stored document is the new one, the tree is the
\* tree of the new document and the selection is cleared, or document, tree
\* and selection are all as they were before the attempt.
C11_AtomicLoad ==
    [][\A p \in DOMAIN pending :
          LoadEnded(p) =>
             \/ UNCHANGED <<familyData, familyTree, selectedPersonId>>
             \/ /\ Parsed(p)
                /\ familyData' = pending[p].json
                /\ selectedPersonId' = Null
                /\ familyTree' = renderFamilyTree(pending[p].json, Null)]_vars

\* C12: documents are independent: the tree rendered for a document (its
\* nodes, their nesting and which of them are marked selected) is the tree a
\* fresh page renders for it, whatever was loaded or selected before
\* (stated for the documents the schema admits).
C12_IndependentOfHistory ==
    [][\A p \in DOMAIN pending :
          (/\ LoadEnded(p)
           /\ Parsed(p)
           /\ IsSchemaValid(pending[p].json))
          => familyTree' = renderFamilyTree(pending[p].json, Null)]_vars

\* C13: traversals and queries are read-only: the stored document changes
\* only when a load that was read and parsed ends, and then to exactly the
\* document that load was given; rendering, selecting and showing details
\* leave it as it is.
C13_ReadOnly ==
    [][familyData' # familyData =>
          \E p \in DOMAIN pending :
             LoadEnded(p) /\ Parsed(p) /\ familyData' = pending[p].json]_vars

\* a document with nested nodes was rendered and one of its individuals,
\* with relatives to link, is selected and shown
C13_Witness ==
    /\ Rendered
    /\ \E i \in DOMAIN familyTree : familyTree[i].anc # << >>
    /\ selectedPersonId # Null
    /\ personDetails.t = "details"
    /\ LinkIds(personDetails) # {}

\* the nodes of a tree, their nesting and their order, without the marks a
\* selection puts on them
Shape(tree) == [i \in DOMAIN tree |-> [id |-> tree[i].id, anc |-> tree[i].anc]]

\* C14: building and traversing are deterministic and idempotent: whenever
\* a document is loaded and rendered, however often it or other documents
\* were loaded and whatever was selected in between, the tree shown has the
\* nodes, the nesting and the sibling order of the first rendering of that
\* document.
C14_Deterministic ==
    Rendered => Shape(familyTree) = Shape(renderFamilyTree(familyData, Null))

\* the document shown was rendered again after a selection (a node still
\* carries the mark of it) and the same document is queued once more
C14_Witness ==
    /\ Rendered
    /\ selectedPersonId = Null
    /\ \E i \in DOMAIN familyTree :
          familyTree[i].selected /\ familyTree[i].anc # << >>
    /\ \E p \in DOMAIN pending : pending[p].io = "ok" /\ pending[p].json = familyData

(***************************************************************************)
(* Children lists and the nodes beneath a node (SpecTree).                 *)
(***************************************************************************)
\* parent.children of the individual a node shows, as a sequence of IDs
ChildrenListOf(fd, id) ==
    LET list == FieldOf(Lookup(fd, id), "children")
    IN IF list.t = "array" THEN list.items ELSE << >>

\* the positions of a children list whose ID passes `if (child)`
ResolvingPositions(fd, items) ==
    {k \in DOMAIN items : Truthy(Lookup(fd, items[k]))}

\* how often x occurs in the sequence s
Count(s, x) == Cardinality({k \in DOMAIN s : s[k] = x})

\* C15: sibling order is declaration order: under every expanded node the
\* a-th node directly beneath it shows the ID at the a-th resolving position
\* of the parent's children list.
C15_SiblingOrder ==
    Rendered =>
       \A i \in DOMAIN familyTree :
          familyTree[i].line =>
             LET items == ChildrenListOf(familyData, familyTree[i].id)
                 R == ResolvingPositions(familyData, items)
                 c == DirectChildIds(familyTree, i)
             IN /\ Len(c) = Cardinality(R)
                /\ \A a \in DOMAIN c :
                      \E p \in R : /\ Cardinality({q \in R : q <= p}) = a
                                   /\ c[a] = items[p]

\* a node whose children list names I2 before I1 has them beneath it in
\* that order, which is not the order of the keys of individuals
C15_Witness ==
    /\ Rendered
    /\ KeysOf(IndividualsOf(familyData)) = <<"I1", "I2">>
    /\ \E i \in DOMAIN familyTree :
          /\ familyTree[i].line
          /\ ChildrenListOf(familyData, familyTree[i].id) = <<"I2", "I1">>
          /\ DirectChildIds(familyTree, i) = <<"I2", "I1">>

\* C16 as stated: children are deduplicated: a child ID that occurs more
\* than once in a parent's children list is emitted once under that parent.
C16_ChildrenDeduplicated ==
    (Rendered /\ IsSchemaValid(familyData)) =>
       \A i \in DOMAIN familyTree :
          familyTree[i].line =>
             LET items == ChildrenListOf(familyData, familyTree[i].id)
             IN \A k \in ResolvingPositions(familyData, items) :
                   Count(DirectChildIds(familyTree, i), items[k]) = 1

\* C16 amended: children are not deduplicated: under an expanded node every
\* resolving child ID is emitted as often as the parent's children list
\* names it, and no other ID is emitted.
C16_ChildrenAsListed ==
    Rendered =>
       \A i \in DOMAIN familyTree :
          familyTree[i].line =>
             LET items == ChildrenListOf(familyData, familyTree[i].id)
                 c == DirectChildIds(familyTree, i)
             IN /\ \A k \in ResolvingPositions(familyData, items) :
                      Count(c, items[k]) = Count(items, items[k])
                /\ \A a \in DOMAIN c :
                      \E k \in ResolvingPositions(familyData, items) : items[k] = c[a]

\* a node whose children list names the same resolving ID twice has two
\* nodes of that ID directly beneath it
C16_Witness ==
    /\ Rendered
    /\ \E i \in DOMAIN familyTree :
          LET items == ChildrenListOf(familyData, familyTree[i].id)
              c == DirectChildIds(familyTree, i)
          IN /\ familyTree[i].line
             /\ \E k \in ResolvingPositions(familyData, items) :
                   Count(items, items[k]) = 2 /\ Count(c, items[k]) = 2

(***************************************************************************)
(* Spouse references (SpecTree).                                           *)
(***************************************************************************)
\* the details of an individual that lists its own ID as a spouse are shown
SelfSpouseShown ==
    /\ Rendered
    /\ personDetails.t = "details"
    /\ personDetails.id \in ListedIn(familyData, personDetails.id, "spouses")

Shown(tree) ==
    [i \in DOMAIN tree |->
       [id |-> tree[i].id, anc |-> tree[i].anc, name |-> tree[i].name]]

\* C18: both document shapes are accepted and equivalent: a structured
\* document (typed relationship records, structured names) is loaded without
\* an error and shows the roots, the nesting and the names that the
\* equivalent legacy document shows.
C18_ShapesEquivalent ==
    \A d \in LegacyDocs :
       familyData = StructuredDoc(d) =>
          /\ alertMsg = NoAlert
          /\ TopIds(familyTree) = TopIds(renderFamilyTree(d, Null))
          /\ Shown(familyTree) = Shown(renderFamilyTree(d, Null))

(***************************************************************************)
(* Directionality of declarations (SpecTree).                              *)
(***************************************************************************)
\* C19: the missing side of a relationship is never inferred: an individual
\* B that declares no parent is a root candidate and is emitted at the top
\* level also when some individual A lists B as a child, and the details of
\* B show no parent.
C19_NoInference ==
    Rendered =>
       \A a \in KeySet(familyData) :
          \A b \in ListedIn(familyData, a, "children") \cap KeySet(familyData) :
             NoDeclaredParents(Lookup(familyData, b)) =>
                /\ Includes(RootCandidates(familyData), b)
                /\ Includes(TopIds(familyTree), b)
                /\ (personDetails.t = "details" /\ personDetails.id = b) =>
                      /\ ~personDetails.parents.shown
                      /\ personDetails.parents.links = << >>

\* A lists B as a child and B declares no parent: B is shown beneath A and
\* at the top level, and the details of B are shown without parents
C19_Witness ==
    /\ Rendered
    /\ IsSchemaValid(familyData)
    /\ personDetails.t = "details"
    /\ ~personDetails.parents.shown
    /\ \E a \in KeySet(familyData) \ {personDetails.id} :
          /\ personDetails.id \in ListedIn(familyData, a, "children")
          /\ \E i \in DOMAIN familyTree :
                /\ familyTree[i].id = personDetails.id
                /\ familyTree[i].anc = << a >>
    /\ \E i \in DOMAIN familyTree :
          familyTree[i].id = personDetails.id /\ familyTree[i].anc = << >>

(***************************************************************************)
(* Failed loads (Spec).                                                    *)
(***************************************************************************)
\* the alerts of the catch blocks for a read, parse or fetch that failed
LoadErrors ==
    {"Error loading file: SyntaxError", "Error loading file: undefined",
     "Error loading example: Failed to load example data",
     "Error loading example: SyntaxError", "Error loading example: NetworkError"}

\* C20: loading completes before the core runs: while a load is started and
\* in flight nothing of the page changes, and when the read, the parse or
\* the fetch of a load fails, the error of the load is reported (not a
\* verdict of processData) and the stored document, the tree, the selection
\* and the details stay as they are.
C20_LoadBeforeCore ==
    [][/\ Len(pending') > Len(pending) =>
             UNCHANGED <<familyData, familyTree, selectedPersonId, personDetails>>
       /\ \A p \in DOMAIN pending :
             (LoadEnded(p) /\ ~Parsed(p)) =>
                /\ alertMsg' \in LoadErrors
                /\ UNCHANGED <<familyData, familyTree, selectedPersonId,
                               personDetails>>]_vars

\* a load has failed and was reported while a document is shown with a
\* selection, which the failure left in place
C20_Witness ==
    /\ alertMsg \in LoadErrors
    /\ Rendered
    /\ familyTree # << >>
    /\ selectedPersonId # Null
    /\ personDetails.t = "details"

(***************************************************************************)
(* Lookups of IDs the store does not hold (SpecTree).                      *)
(***************************************************************************)
\* this step is a call selectPerson(id)
Selects(id) == pending' = pending /\ selectedPersonId' = Str(id)

\* C21: a lookup for an ID that is absent from the store, or made while no
\* document is loaded, gives the not-found result, raises no error and
\* leaves the loaded document and the nodes of the tree as they are.
C21_AbsentLookupNotFound ==
    [][\A id \in Clickable :
          (Selects(id) /\ id \notin KeySet(familyData)) =>
             /\ personDetails' = PersonNotFound
             /\ alertMsg' = NoAlert
             /\ familyData' = familyData
             /\ Shape(familyTree') = Shape(familyTree)]_vars

(***************************************************************************)
(* The event query (SpecQuery).                                            *)
(***************************************************************************)
\* the event is of the type asked for and its subject is the individual
\* asked for
Matches(e) == e.type = query.t /\ e.individual_id = Str(query.i)

C23_RoundTrip ==
    \A d \in LegacyDocs :
       (familyData = StructuredDoc(d) /\ personDetails.t = "details") =>
          LET legacy == Lookup(d, personDetails.id)
          IN /\ Truthy(legacy.full_name) =>
                   personDetails.name = legacy.full_name.s
             /\ BirthInfo(legacy) # "" =>
                   personDetails.birth = BirthInfo(legacy)

(***************************************************************************)
(* The path guard and the visited sequence.                                *)
(***************************************************************************)
\* C24: path guard: a node whose ID is already the ID of one of its
\* ancestors is not expanded: it has no children container and no node
\* beneath it, whatever its children list names, and the load that rendered
\* the tree showed no error.
C24_PathGuard ==
    Rendered =>
       \A i \in DOMAIN familyTree :
          Includes(familyTree[i].anc, familyTree[i].id) =>
             /\ ~familyTree[i].line
             /\ DirectChildIds(familyTree, i) = << >>
             /\ SubtreeEnd(familyTree, i) = i
             /\ alertMsg = NoAlert

\* a node repeats the ID of an ancestor and is left unexpanded although its
\* children list names an individual that resolves
C24_Witness ==
    /\ Rendered
    /\ alertMsg = NoAlert
    /\ \E i \in DOMAIN familyTree :
          /\ Includes(familyTree[i].anc, familyTree[i].id)
          /\ ResolvingPositions(familyData,
                ChildrenListOf(familyData, familyTree[i].id)) # {}
          /\ ~familyTree[i].line

\* C25: the visited sequence is per path: the sequence a call of
\* renderChildren receives is the list of the IDs from the top-level root
\* to the parent of its node, in order, and while the call loops over its
\* children the sequence is that list with the node's own ID added, whatever
\* was expanded elsewhere; so, at the end, every node that is not on its own
\* ancestor path, lies less than 10 levels deep and has a non-empty
\* children list is expanded, also when the same individual was expanded
\* under another node before.
C25_VisitedPerPath ==
    /\ \A k \in DOMAIN walk.stack :
          LET f == walk.stack[k]
              path == Enclosing(SubSeq(walk.stack, 1, k - 1))
          IN f.fn = "renderChildren" =>
                f.visitedIds = IF f.st = "enter" THEN path
                               ELSE Append(path, f.parentId)
    /\ walk.pc = "done" =>
          \A k \in DOMAIN walk.out :
             LET n == walk.out[k]
                 items == ChildrenListOf(familyData, n.id)
                 R == ResolvingPositions(familyData, items)
             IN (/\ findRootIndividuals(familyData) # << >>
                 /\ ~Includes(n.anc, n.id)
                 /\ Len(n.anc) < MaxDepth
                 /\ items # << >>
                 /\ R # {})
                => /\ k < Len(walk.out)
                   /\ walk.out[k + 1].anc = Append(n.anc, n.id)

\* I1 is being expanded under I4 after it was expanded under I3: the call
\* for I1 holds the path <<I4, I1>> although I1 and I5 are emitted already
C25_Witness ==
    /\ walk.pc = "run"
    /\ \E k \in DOMAIN walk.stack :
          /\ walk.stack[k].fn = "renderChildren"
          /\ walk.stack[k].st = "loop"
          /\ walk.stack[k].visitedIds = <<"I4", "I1">>
    /\ \E j \in DOMAIN walk.out : walk.out[j].anc = <<"I3", "I1">>

(***************************************************************************)
(* The selection within a session.                                         *)
(***************************************************************************)
\* C26: selection marking is consistent in every reachable state: a tree
\* node carries the selected mark only if its ID is selectedPersonId, and at
\* most one node carries the mark; no node is marked while selectedPersonId
\* is null (stated for the documents the schema admits).
C26_SelectionMarks ==
    IsSchemaValid(familyData) =>
       /\ \A i \in DOMAIN familyTree :
             familyTree[i].selected => selectedPersonId = Str(familyTree[i].id)
       /\ Cardinality({i \in DOMAIN familyTree : familyTree[i].selected}) <= 1

\* C27: in every reachable state selectedPersonId is null or the ID of an
\* individual of the document that is loaded (stated for the documents the
\* schema admits).
C27_SelectionInDocument ==
    IsSchemaValid(familyData) =>
       \/ selectedPersonId = Null
       \/ selectedPersonId.s \in KeySet(familyData)

(***************************************************************************)
(* Loads in flight at once (SpecRace).                                     *)
(***************************************************************************)
\* C28: when several loads are in flight at once, the document loaded and
\* shown when all of them have ended is the document of the load that was
\* started last, whatever the order in which the reads complete.
C28_LastStartedWins ==
    pending = << >> =>
       /\ familyData \in LaterDocs
       /\ Shape(familyTree) = Shape(renderFamilyTree(familyData, Null))

(***************************************************************************)
(* Which individuals the tree shows (SpecTree).                            *)
(***************************************************************************)
\* the IDs that occur in the tree
TreeIds(tree) == {tree[k].id : k \in DOMAIN tree}

\* C29 as stated: every individual of a loaded document appears at least
\* once in the rendered tree.
C29_EveryIndividualShown ==
    (Rendered /\ IsSchemaValid(familyData)) =>
       KeySet(familyData) \subseteq TreeIds(familyTree)

\* C29 amended: when the document has no root candidate, every individual
\* appears in the tree; otherwise an individual appears exactly if it is a
\* root candidate or its ID resolves and stands in the children list of a
\* node that is expanded, so an individual that declares a parent and is
\* named by no such list does not appear.
C29_ShownIfRootOrListed ==
    Rendered =>
       IF RootCandidates(familyData) = << >>
       THEN TreeIds(familyTree) = KeySet(familyData)
       ELSE \A id \in KeySet(familyData) :
               id \in TreeIds(familyTree) <=>
                  \/ Includes(RootCandidates(familyData), id)
                  \/ /\ Truthy(Lookup(familyData, id))
                     /\ \E i \in DOMAIN familyTree :
                           /\ familyTree[i].line
                           /\ Includes(ChildrenListOf(familyData, familyTree[i].id), id)

\* a document with a root was rendered and one of its individuals, which
\* declares a parent, is nowhere in the tree
C29_Witness ==
    /\ Rendered
    /\ IsSchemaValid(familyData)
    /\ familyTree # << >>
    /\ \E id \in KeySet(familyData) \ TreeIds(familyTree) :
          ~NoDeclaredParents(Lookup(familyData, id))

====
